---- MODULE Spec2Model ----
(***************************************************************************)
(* NetworkManager (Web-Interface/Backend/network_manager.py): the node     *)
(* store, the per-node command queues and the topology builder behind one  *)
(* asyncio.Lock.                                                           *)
(*                                                                         *)
(* Encoding of the Python values:                                          *)
(*   - a dict whose iteration order is observed (self.nodes) is a sequence *)
(*     of [key, value] entries in insertion order;                         *)
(*   - a dict whose order is never observed (self.pending_commands, a      *)
(*     report payload) is a function on its key set; {} is <<>>;           *)
(*   - a report's "neighbors" value is tagged with its Python type:        *)
(*     PyList(s) is the list s, PyInt is a number (not iterable);          *)
(*   - a routing table is the set of its (destination, next hop) items;    *)
(*   - time.time() is the variable now, counted in tenths of a second.     *)
(***************************************************************************)
EXTENDS Integers, Sequences, FiniteSets, TLC

VARIABLES
    nodes,             \* self.nodes
    pending_commands,  \* self.pending_commands
    now,               \* the value time.time() returns
    ticks,             \* history: the number of times the clock has advanced
    last,              \* the last completed call: its name, arguments and result
    reported,          \* history: per id whose update_node has completed, its latest payload
    enqueued,          \* history: per id, the commands enqueued for it since its last get_commands
    missed,            \* history: per id, whether a BROADCAST since its last get_commands found it outside the store
    lock,              \* self.lock: "free", or the task that holds it
    tasks,             \* the coroutines in flight: per task its call, its position and its local cmds
    issued,            \* history: the number of queue_command calls made by tasks
    sent,              \* history: per id, every command a task enqueued for it, in order
    received,          \* history: per id, every command a task's get_commands returned, in order
    lin                \* history: what the call holding the lock yields when run in one step at its entry

conc == <<lock, tasks, issued, sent, received, lin>>

clock == <<now, ticks>>

vars == <<nodes, pending_commands, clock, last, reported, enqueued, missed, conc>>

-----------------------------------------------------------------------------
(* Bounds and input sets *)

MaxPending == 2   \* commands pending over all queues together
MaxTicks == 3     \* advances of the clock
MaxIssued == 2    \* queue_command calls made by tasks

Ids == {"A", "B", "C"}
Tasks == {"t1", "t2", "t3"}
Cmds == {"x", "y"}
TimeSteps == {1, 49}

BROADCAST == "BROADCAST"
LOCAL_MARKER == "LOCAL"
ActiveThreshold == 50   \* 5.0 s, in tenths of a second

PyList(s) == [type |-> "list", items |-> s]
PyInt == [type |-> "int", items |-> <<>>]

EmptyReport == <<>>
FullReport ==
    [routing_table |-> {<<"B", "B">>}, neighbors |-> PyList(<<"B", "LOCAL", "B">>), ip |-> "10.0.0.1"]
PartialReport == [neighbors |-> PyList(<<"C", "A">>), ip |-> "10.0.0.2"]
MalformedReport == [neighbors |-> PyInt, ip |-> "10.0.0.3"]

-----------------------------------------------------------------------------
(* dict helpers *)

\* d.get(k, default) on a dict encoded as a function
Get(d, k, default) == IF k \in DOMAIN d THEN d[k] ELSE default

\* d[k] = v on a dict encoded as a function
SetKey(d, k, v) == [x \in (DOMAIN d) \cup {k} |-> IF x = k THEN v ELSE d[x]]

\* faulty variant: the command goes to the front of the list
SetDefaultPrepend(d, k, c) == SetKey(d, k, <<c>> \o Get(d, k, <<>>))

\* d.setdefault(k, []).append(c)
SetDefaultAppend(d, k, c) == SetKey(d, k, Append(Get(d, k, <<>>), c))

\* self.nodes.keys()
NodeKeys(d) == {d[i].key : i \in 1..Len(d)}

\* index of key k in the ordered dict d (k is a key of d)
IndexOf(d, k) == CHOOSE i \in 1..Len(d) : d[i].key = k

\* self.nodes.get(k, {})
NodeGet(d, k) == IF k \in NodeKeys(d) THEN d[IndexOf(d, k)].value ELSE <<>>

\* faulty variant: the store is replaced by one holding the new record alone
NodeSetSingle(d, k, v) == <<[key |-> k, value |-> v]>>

\* self.nodes[k] = v: an existing key keeps its position, a new key goes last
NodeSet(d, k, v) ==
    IF k \in NodeKeys(d)
    THEN [d EXCEPT ![IndexOf(d, k)] = [key |-> k, value |-> v]]
    ELSE Append(d, [key |-> k, value |-> v])

-----------------------------------------------------------------------------
(* update_node *)

\* faulty variant: a field missing in the report keeps the value of the previous record
NewRecordMerged(node_id, data) ==
    LET old == IF node_id \in NodeKeys(nodes)
               THEN NodeGet(nodes, node_id)
               ELSE [routing_table |-> {}, neighbors |-> PyList(<<>>), ip |-> ""]
    IN [last_seen     |-> now,
        routing_table |-> Get(data, "routing_table", old.routing_table),
        neighbors     |-> Get(data, "neighbors", old.neighbors),
        ip            |-> Get(data, "ip", old.ip),
        details       |-> data]

\* the record update_node builds from a report, lines 21-27
NewRecord(node_id, data) ==
    [last_seen     |-> now,
     routing_table |-> Get(data, "routing_table", {}),
     neighbors     |-> Get(data, "neighbors", PyList(<<>>)),
     ip            |-> Get(data, "ip", ""),
     details       |-> data]

\* faulty variant: every report starts the node's queue afresh
InitQueueReset(node_id) == SetKey(pending_commands, node_id, <<>>)

\* faulty variant: no queue is created for a node without one
InitQueueSkip(node_id) == pending_commands

\* lines 29-30
InitQueue(node_id) ==
    IF node_id \notin DOMAIN pending_commands
    THEN SetKey(pending_commands, node_id, <<>>)
    ELSE pending_commands

update_node(node_id, data) ==
    /\ nodes' = NodeSet(nodes, node_id, NewRecord(node_id, data))
    /\ pending_commands' = InitQueue(node_id)
    /\ last' = [op |-> "update_node", node_id |-> node_id, arg |-> data,
                status |-> "ok", ret |-> "None", hist |-> NodeGet(nodes, node_id)]
    /\ reported' = SetKey(reported, node_id, data)
    /\ UNCHANGED <<clock, enqueued, missed, conc>>

-----------------------------------------------------------------------------
(* get_commands *)

\* line 34
PendingOf(node_id) == Get(pending_commands, node_id, <<>>)

\* line 35
Drained(node_id) == SetKey(pending_commands, node_id, <<>>)

get_commands(node_id) ==
    /\ pending_commands' = Drained(node_id)
    /\ last' = [op |-> "get_commands", node_id |-> node_id, arg |-> "",
                status |-> "ok", ret |-> PendingOf(node_id),
                hist |-> [enqueued |-> enqueued[node_id], missed |-> missed[node_id]]]
    /\ enqueued' = [enqueued EXCEPT ![node_id] = <<>>]
    /\ missed' = [missed EXCEPT ![node_id] = FALSE]
    /\ UNCHANGED <<nodes, clock, reported, conc>>

-----------------------------------------------------------------------------
(* queue_command *)

\* faulty variant: a broadcast reaches every id that has a queue
TargetsAllQueues(node_id) ==
    IF node_id = BROADCAST THEN DOMAIN pending_commands ELSE {node_id}

\* the ids a command is appended to, lines 40-44
Targets(node_id) == IF node_id = BROADCAST THEN NodeKeys(nodes) ELSE {node_id}

RECURSIVE AppendAll(_, _, _)
\* lines 41-42 / 44: setdefault(nid, []).append(command) for each target
AppendAll(d, targets, command) ==
    IF targets = {} THEN d
    ELSE LET nid == CHOOSE t \in targets : TRUE
         IN AppendAll(SetDefaultAppend(d, nid, command), targets \ {nid}, command)

RECURSIVE TotalPending(_, _)
\* the number of commands pending in the queues of the ids in keys
TotalPending(d, keys) ==
    IF keys = {} THEN 0
    ELSE LET k == CHOOSE x \in keys : TRUE
         IN Len(d[k]) + TotalPending(d, keys \ {k})

queue_command(node_id, command) ==
    /\ TotalPending(pending_commands, DOMAIN pending_commands)
           + Cardinality(Targets(node_id)) <= MaxPending
    /\ pending_commands' = AppendAll(pending_commands, Targets(node_id), command)
    /\ last' = [op |-> "queue_command", node_id |-> node_id, arg |-> command,
                status |-> "ok", ret |-> "None", hist |-> <<>>]
    /\ enqueued' = [x \in Ids |->
                      IF node_id = x \/ (node_id = BROADCAST /\ x \in NodeKeys(nodes))
                      THEN Append(enqueued[x],
                                  [cmd |-> command,
                                   via |-> IF node_id = BROADCAST THEN "broadcast" ELSE "direct"])
                      ELSE enqueued[x]]
    /\ missed' = [x \in Ids |-> missed[x] \/ (node_id = BROADCAST /\ x \notin NodeKeys(nodes))]
    /\ UNCHANGED <<nodes, clock, reported, conc>>

-----------------------------------------------------------------------------
(* get_topology *)

\* faulty variant: the threshold itself still counts as active
IsActiveInclusive(current_time, last_seen) == (current_time - last_seen) <= ActiveThreshold

\* line 63
IsActive(current_time, last_seen) == (current_time - last_seen) < ActiveThreshold

\* lines 64-69
NodeEntry(nid, is_active) ==
    [id    |-> nid,
     name  |-> nid,
     val   |-> IF is_active THEN 10 ELSE 5,
     color |-> IF is_active THEN "#4CAF50" ELSE "#9E9E9E"]

\* lines 76-81
GhostEntry(neighbor_id) ==
    [id |-> neighbor_id, name |-> neighbor_id \o " (?)", val |-> 5, color |-> "#FFC107"]

\* lines 85-89
LinkEntry(nid, neighbor_id) == [source |-> nid, target |-> neighbor_id, color |-> "#FFF"]

\* faulty variant: the marker is not exempted from the ghost test
IsGhostNoMarker(neighbor_id, known_ids) == neighbor_id \notin known_ids

\* line 74
IsGhost(neighbor_id, known_ids) == neighbor_id \notin known_ids /\ neighbor_id # LOCAL_MARKER

\* faulty variant: the marker is linked like any other neighbour
IsLinkedAlways(neighbor_id) == TRUE

\* line 84
IsLinked(neighbor_id) == neighbor_id # LOCAL_MARKER

\* faulty variant: line 75 is missing, an emitted ghost is not remembered
NeighborStepNoAdd(g, nid, neighbor_id) ==
    LET g1 == IF IsGhost(neighbor_id, g.known_ids)
              THEN [g EXCEPT !.graph_nodes = Append(@, GhostEntry(neighbor_id))]
              ELSE g
    IN IF IsLinked(neighbor_id)
       THEN [g1 EXCEPT !.graph_links = Append(@, LinkEntry(nid, neighbor_id))]
       ELSE g1

\* faulty variant: a link already in the graph is not appended again
NeighborStepDedup(g, nid, neighbor_id) ==
    LET g1 == IF IsGhost(neighbor_id, g.known_ids)
              THEN [g EXCEPT !.known_ids = @ \cup {neighbor_id},
                             !.graph_nodes = Append(@, GhostEntry(neighbor_id))]
              ELSE g
        seen == \E i \in 1..Len(g1.graph_links) :
                    g1.graph_links[i] = LinkEntry(nid, neighbor_id)
    IN IF IsLinked(neighbor_id) /\ ~seen
       THEN [g1 EXCEPT !.graph_links = Append(@, LinkEntry(nid, neighbor_id))]
       ELSE g1

\* one pass of the inner loop body, lines 73-89
NeighborStep(g, nid, neighbor_id) ==
    LET g1 == IF IsGhost(neighbor_id, g.known_ids)
              THEN [g EXCEPT !.known_ids = @ \cup {neighbor_id},
                             !.graph_nodes = Append(@, GhostEntry(neighbor_id))]
              ELSE g
    IN IF IsLinked(neighbor_id)
       THEN [g1 EXCEPT !.graph_links = Append(@, LinkEntry(nid, neighbor_id))]
       ELSE g1

RECURSIVE NeighborLoop(_, _, _, _)
\* for neighbor_id in neighbors, lines 72-89, from position i
NeighborLoop(g, nid, neighbors, i) ==
    IF i > Len(neighbors) THEN g
    ELSE NeighborLoop(NeighborStep(g, nid, neighbors[i]), nid, neighbors, i + 1)

\* faulty variant: a node silent for the threshold or longer is left out of the graph
NodeStepDropStale(g, nid, info, current_time) ==
    IF ~IsActive(current_time, info.last_seen) THEN g
    ELSE LET g1 == [g EXCEPT !.graph_nodes = Append(@, NodeEntry(nid, TRUE))]
         IN IF info.neighbors.type # "list"
            THEN [g1 EXCEPT !.status = "TypeError"]
            ELSE NeighborLoop(g1, nid, info.neighbors.items, 1)

\* one pass of the outer loop body, lines 63-89; iterating a value that is not
\* iterable raises TypeError (line 72), after the node's own entry was appended
NodeStep(g, nid, info, current_time) ==
    LET g1 == [g EXCEPT !.graph_nodes =
                   Append(@, NodeEntry(nid, IsActive(current_time, info.last_seen)))]
    IN IF info.neighbors.type # "list"
       THEN [g1 EXCEPT !.status = "TypeError"]
       ELSE NeighborLoop(g1, nid, info.neighbors.items, 1)

RECURSIVE NodeLoop(_, _, _, _)
\* for nid, info in self.nodes.items(), lines 62-89, from position i
NodeLoop(g, d, current_time, i) ==
    IF i > Len(d) \/ g.status # "ok" THEN g
    ELSE NodeLoop(NodeStep(g, d[i].key, d[i].value, current_time), d, current_time, i + 1)

\* faulty variant: known_ids starts empty instead of holding the store's keys
BuildTopologyNoKnown(d, current_time) ==
    NodeLoop([graph_nodes |-> <<>>, graph_links |-> <<>>,
              known_ids |-> {}, status |-> "ok"], d, current_time, 1)

\* lines 53-94: the graph built from the store d at the instant current_time
BuildTopology(d, current_time) ==
    NodeLoop([graph_nodes |-> <<>>, graph_links |-> <<>>,
              known_ids |-> NodeKeys(d), status |-> "ok"], d, current_time, 1)

\* lines 91-94, or the exception that leaves the call
TopologyResult(g) ==
    IF g.status = "ok" THEN [nodes |-> g.graph_nodes, links |-> g.graph_links] ELSE "raised"

\* faulty variant: a ghost the build emits is written into the store
get_topology_persist ==
    LET g == BuildTopology(nodes, now)
        ghosts == g.known_ids \ NodeKeys(nodes)
    IN /\ last' = [op |-> "get_topology", node_id |-> "", arg |-> now,
                   status |-> g.status, ret |-> TopologyResult(g), hist |-> <<>>]
       /\ nodes' = IF ghosts = {} THEN nodes
                   ELSE LET x == CHOOSE y \in ghosts : TRUE
                        IN NodeSet(nodes, x, NewRecord(x, EmptyReport))
       /\ UNCHANGED <<pending_commands, clock, reported, enqueued, missed, conc>>

get_topology ==
    LET g == BuildTopology(nodes, now)
    IN /\ last' = [op |-> "get_topology", node_id |-> "", arg |-> now,
                   status |-> g.status, ret |-> TopologyResult(g), hist |-> <<>>]
       /\ UNCHANGED <<nodes, pending_commands, clock, reported, enqueued, missed, conc>>

-----------------------------------------------------------------------------
(* get_node_details *)

\* faulty variant: only the stored payload is returned
DetailsPayloadOnly(node_id) ==
    [status |-> "ok",
     value  |-> IF node_id \in NodeKeys(nodes) THEN NodeGet(nodes, node_id).details ELSE <<>>]

\* faulty variant: self.nodes[node_id], which raises KeyError for an unknown id
DetailsIndexed(node_id) ==
    IF node_id \in NodeKeys(nodes)
    THEN [status |-> "ok", value |-> NodeGet(nodes, node_id)]
    ELSE [status |-> "KeyError", value |-> "raised"]

\* line 98: the call's outcome and the value it returns
Details(node_id) == [status |-> "ok", value |-> NodeGet(nodes, node_id)]

get_node_details(node_id) ==
    /\ last' = [op |-> "get_node_details", node_id |-> node_id, arg |-> "",
                status |-> Details(node_id).status, ret |-> Details(node_id).value,
                hist |-> <<>>]
    /\ UNCHANGED <<nodes, pending_commands, clock, reported, enqueued, missed, conc>>

-----------------------------------------------------------------------------
(* the clock *)

\* time passes between calls: time.time() returns dt more than before
Advance(dt) ==
    /\ ticks < MaxTicks
    /\ ticks' = ticks + 1
    /\ now' = now + dt
    /\ UNCHANGED <<nodes, pending_commands, last, reported, enqueued, missed, conc>>

-----------------------------------------------------------------------------
(* The operations as coroutines: each call enters "async with self.lock", runs
   its body line by line and leaves the block. *)

Idle == [pc |-> "idle", op |-> "", node_id |-> "", arg |-> "", cmds |-> <<>>, ret |-> <<>>]

\* a task that has just called op(node_id, arg)
Called(op, node_id, arg) ==
    [pc |-> "acquire", op |-> op, node_id |-> node_id, arg |-> arg, cmds |-> <<>>, ret |-> <<>>]

NoLin == [by |-> "", op |-> "", post |-> <<>>]

\* faulty variant: the block is entered whether or not the lock is held
LockIgnored == TRUE

\* "async with self.lock" may be entered, lines 20, 33, 39
LockFree == lock = "free"

\* the first line of the body of each operation
FirstLine(op) ==
    CASE op = "update_node" -> "L21"
      [] op = "get_commands" -> "L34"
      [] op = "queue_command" -> "L40"
      [] op = "get_topology" -> "L53"
      [] op = "get_node_details" -> "L98"

\* the store, the queues and the return value the call c yields when its whole
\* body runs in one step on the present state
Linearized(c) ==
    CASE c.op = "update_node" ->
            [nodes |-> NodeSet(nodes, c.node_id, NewRecord(c.node_id, c.arg)),
             pending_commands |-> InitQueue(c.node_id), ret |-> <<>>]
      [] c.op = "get_commands" ->
            [nodes |-> nodes, pending_commands |-> Drained(c.node_id),
             ret |-> PendingOf(c.node_id)]
      [] c.op = "queue_command" ->
            [nodes |-> nodes,
             pending_commands |-> AppendAll(pending_commands, Targets(c.node_id), c.arg),
             ret |-> <<>>]
      [] c.op = "get_topology" ->
            [nodes |-> nodes, pending_commands |-> pending_commands,
             ret |-> TopologyResult(BuildTopology(nodes, now))]
      [] c.op = "get_node_details" ->
            [nodes |-> nodes, pending_commands |-> pending_commands,
             ret |-> Details(c.node_id).value]

\* a caller starts update_node(node_id, data)
CallUpdateNode(t, node_id, data) ==
    /\ tasks[t].pc = "idle"
    /\ tasks' = [tasks EXCEPT ![t] = Called("update_node", node_id, data)]
    /\ UNCHANGED <<nodes, pending_commands, clock, last, reported, enqueued, missed,
                   lock, issued, sent, received, lin>>

\* a caller starts get_commands(node_id)
CallGetCommands(t, node_id) ==
    /\ tasks[t].pc = "idle"
    /\ tasks' = [tasks EXCEPT ![t] = Called("get_commands", node_id, "")]
    /\ UNCHANGED <<nodes, pending_commands, clock, last, reported, enqueued, missed,
                   lock, issued, sent, received, lin>>

\* a caller starts queue_command(node_id, command)
CallQueueCommand(t, node_id, command) ==
    /\ tasks[t].pc = "idle"
    /\ issued < MaxIssued
    /\ issued' = issued + 1
    /\ tasks' = [tasks EXCEPT ![t] = Called("queue_command", node_id, command)]
    /\ UNCHANGED <<nodes, pending_commands, clock, last, reported, enqueued, missed,
                   lock, sent, received, lin>>

\* lines 20, 33, 39, 52, 97: the task takes the lock
Acquire(t) ==
    /\ tasks[t].pc = "acquire"
    /\ LockFree
    /\ lock' = t
    /\ tasks' = [tasks EXCEPT ![t].pc = FirstLine(tasks[t].op)]
    /\ lin' = [by |-> t, op |-> tasks[t].op, post |-> Linearized(tasks[t])]
    /\ UNCHANGED <<nodes, pending_commands, clock, last, reported, enqueued, missed,
                   issued, sent, received>>

\* lines 21-27
StepL21(t) ==
    /\ tasks[t].pc = "L21"
    /\ nodes' = NodeSet(nodes, tasks[t].node_id, NewRecord(tasks[t].node_id, tasks[t].arg))
    /\ tasks' = [tasks EXCEPT ![t].pc = "L29"]
    /\ UNCHANGED <<pending_commands, clock, last, reported, enqueued, missed,
                   lock, issued, sent, received, lin>>

\* lines 29-30
StepL29(t) ==
    /\ tasks[t].pc = "L29"
    /\ pending_commands' = InitQueue(tasks[t].node_id)
    /\ tasks' = [tasks EXCEPT ![t].pc = "exit"]
    /\ UNCHANGED <<nodes, clock, last, reported, enqueued, missed, lock, issued, sent, received, lin>>

\* line 34
StepL34(t) ==
    /\ tasks[t].pc = "L34"
    /\ tasks' = [tasks EXCEPT ![t].cmds = PendingOf(tasks[t].node_id), ![t].pc = "L35"]
    /\ UNCHANGED <<nodes, pending_commands, clock, last, reported, enqueued, missed,
                   lock, issued, sent, received, lin>>

\* line 35
StepL35(t) ==
    /\ tasks[t].pc = "L35"
    /\ pending_commands' = Drained(tasks[t].node_id)
    /\ tasks' = [tasks EXCEPT ![t].pc = "exit"]
    /\ UNCHANGED <<nodes, clock, last, reported, enqueued, missed, lock, issued, sent, received, lin>>

\* lines 40-44
StepL40(t) ==
    /\ tasks[t].pc = "L40"
    /\ pending_commands' =
          AppendAll(pending_commands, Targets(tasks[t].node_id), tasks[t].arg)
    /\ sent' = [x \in Ids |->
                  IF tasks[t].node_id = x
                     \/ (tasks[t].node_id = BROADCAST /\ x \in NodeKeys(nodes))
                  THEN Append(sent[x], tasks[t].arg) ELSE sent[x]]
    /\ tasks' = [tasks EXCEPT ![t].pc = "exit"]
    /\ UNCHANGED <<nodes, clock, last, reported, enqueued, missed, lock, issued, received, lin>>

\* a caller starts get_topology()
CallGetTopology(t) ==
    /\ tasks[t].pc = "idle"
    /\ tasks' = [tasks EXCEPT ![t] = Called("get_topology", "", "")]
    /\ UNCHANGED <<nodes, pending_commands, clock, last, reported, enqueued, missed,
                   lock, issued, sent, received, lin>>

\* a caller starts get_node_details(node_id)
CallGetNodeDetails(t, node_id) ==
    /\ tasks[t].pc = "idle"
    /\ tasks' = [tasks EXCEPT ![t] = Called("get_node_details", node_id, "")]
    /\ UNCHANGED <<nodes, pending_commands, clock, last, reported, enqueued, missed,
                   lock, issued, sent, received, lin>>

\* lines 53-94: the build writes only locals of the call; it is one read of the store
StepL53(t) ==
    /\ tasks[t].pc = "L53"
    /\ tasks' = [tasks EXCEPT ![t].ret = TopologyResult(BuildTopology(nodes, now)),
                              ![t].pc = "exit"]
    /\ UNCHANGED <<nodes, pending_commands, clock, last, reported, enqueued, missed,
                   lock, issued, sent, received, lin>>

\* line 98
StepL98(t) ==
    /\ tasks[t].pc = "L98"
    /\ tasks' = [tasks EXCEPT ![t].ret = Details(tasks[t].node_id).value, ![t].pc = "exit"]
    /\ UNCHANGED <<nodes, pending_commands, clock, last, reported, enqueued, missed,
                   lock, issued, sent, received, lin>>

\* faulty variant: the call returns with the lock still held
ExitKeepLock(t) ==
    /\ tasks[t].pc = "exit"
    /\ tasks' = [tasks EXCEPT ![t] = Idle]
    /\ received' = IF tasks[t].op = "get_commands"
                   THEN [received EXCEPT ![tasks[t].node_id] = @ \o tasks[t].cmds]
                   ELSE received
    /\ reported' = IF tasks[t].op = "update_node"
                   THEN SetKey(reported, tasks[t].node_id, tasks[t].arg) ELSE reported
    /\ UNCHANGED <<nodes, pending_commands, clock, last, enqueued, missed, issued, sent,
                   lock, lin>>

\* the block is left: the lock is released and the call returns (line 36 for
\* get_commands, the end of the body for the others)
Exit(t) ==
    /\ tasks[t].pc = "exit"
    /\ lock' = "free"
    /\ tasks' = [tasks EXCEPT ![t] = Idle]
    /\ received' = IF tasks[t].op = "get_commands"
                   THEN [received EXCEPT ![tasks[t].node_id] = @ \o tasks[t].cmds]
                   ELSE received
    /\ reported' = IF tasks[t].op = "update_node"
                   THEN SetKey(reported, tasks[t].node_id, tasks[t].arg) ELSE reported
    /\ lin' = NoLin
    /\ UNCHANGED <<nodes, pending_commands, clock, last, enqueued, missed, issued, sent>>

-----------------------------------------------------------------------------
(* Specifications *)

\* lines 11-17
Init ==
    /\ nodes = <<>>
    /\ pending_commands = <<>>
    /\ now = 0
    /\ ticks = 0
    /\ last = [op |-> "init", node_id |-> "", arg |-> "", status |-> "ok",
               ret |-> "None", hist |-> <<>>]
    /\ reported = <<>>
    /\ enqueued = [x \in Ids |-> <<>>]
    /\ missed = [x \in Ids |-> FALSE]
    /\ lock = "free"
    /\ tasks = [t \in Tasks |-> Idle]
    /\ lin = NoLin
    /\ issued = 0
    /\ sent = [x \in Ids |-> <<>>]
    /\ received = [x \in Ids |-> <<>>]

\* every operation, on one clock instant
Next ==
    \/ \E n \in Ids : update_node(n, FullReport)
    \/ \E n \in Ids : get_commands(n)
    \/ \E n \in Ids \cup {BROADCAST} : queue_command(n, "x")
    \/ get_topology
    \/ \E n \in Ids : get_node_details(n)

Spec == Init /\ [][Next]_vars

\* the command queues: two commands, reports without content
NextQueue ==
    \/ \E n \in Ids : update_node(n, EmptyReport)
    \/ \E n \in Ids : get_commands(n)
    \/ \E n \in Ids \cup {BROADCAST}, c \in Cmds : queue_command(n, c)

SpecQueue == Init /\ [][NextQueue]_vars

\* the store and the topology builder, every report shape
NextTopo ==
    \/ \E n \in Ids, d \in {EmptyReport, FullReport, PartialReport, MalformedReport} :
          update_node(n, d)
    \/ get_topology
    \/ \E n \in Ids : get_node_details(n)

SpecTopo == Init /\ [][NextTopo]_vars

\* reports and snapshots as time passes
NextClock ==
    \/ \E n \in Ids : update_node(n, PartialReport)
    \/ \E dt \in TimeSteps : Advance(dt)
    \/ get_topology

SpecClock == Init /\ [][NextClock]_vars

StaleIds == {"A", "B"}

\* all five operations as time passes, a threshold's length at a time
NextStale ==
    \/ \E n \in StaleIds : update_node(n, FullReport)
    \/ \E n \in StaleIds : get_commands(n)
    \/ \E n \in StaleIds \cup {BROADCAST} : queue_command(n, "x")
    \/ get_topology
    \/ \E n \in StaleIds : get_node_details(n)
    \/ Advance(ActiveThreshold)

SpecStale == Init /\ [][NextStale]_vars

\* concurrent callers of the queue operations and of update_node
ConcIds == {"A", "B"}

\* the tasks' successive queue_command calls carry alternating commands
NthCmd(i) == IF i % 2 = 0 THEN "x" ELSE "y"

NextConc ==
    \/ \E t \in Tasks, n \in ConcIds : CallUpdateNode(t, n, EmptyReport)
    \/ \E t \in Tasks, n \in ConcIds : CallGetCommands(t, n)
    \/ \E t \in Tasks, n \in ConcIds \cup {BROADCAST} : CallQueueCommand(t, n, NthCmd(issued))
    \/ \E t \in Tasks : Acquire(t)
    \/ \E t \in Tasks : StepL21(t)
    \/ \E t \in Tasks : StepL29(t)
    \/ \E t \in Tasks : StepL34(t)
    \/ \E t \in Tasks : StepL35(t)
    \/ \E t \in Tasks : StepL40(t)
    \/ \E t \in Tasks : Exit(t)

SpecConc == Init /\ [][NextConc]_vars

\* a call of update_node on node_id has been started, finished or not
UpdateCalled(node_id) ==
    \/ node_id \in DOMAIN reported
    \/ \E u \in Tasks : tasks[u].op = "update_node" /\ tasks[u].node_id = node_id

\* concurrent first reports of distinct ids against concurrent get_topology calls
NextRace ==
    \/ \E t \in Tasks, n \in Ids : ~UpdateCalled(n) /\ CallUpdateNode(t, n, EmptyReport)
    \/ \E t \in Tasks : CallGetTopology(t)
    \/ \E t \in Tasks : Acquire(t)
    \/ \E t \in Tasks : StepL21(t)
    \/ \E t \in Tasks : StepL29(t)
    \/ \E t \in Tasks : StepL53(t)
    \/ \E t \in Tasks : Exit(t)

SpecRace == Init /\ [][NextRace]_vars

\* the command of a task's queue_command call
LockCmd == "x"

\* all five operations as concurrent callers on one node id
NextLock ==
    \/ \E t \in Tasks, d \in {FullReport, PartialReport} : CallUpdateNode(t, "A", d)
    \/ \E t \in Tasks : CallGetCommands(t, "A")
    \/ \E t \in Tasks, n \in {"A", BROADCAST} : CallQueueCommand(t, n, LockCmd)
    \/ \E t \in Tasks : CallGetTopology(t)
    \/ \E t \in Tasks : CallGetNodeDetails(t, "A")
    \/ \E t \in Tasks : Acquire(t)
    \/ \E t \in Tasks : StepL21(t)
    \/ \E t \in Tasks : StepL29(t)
    \/ \E t \in Tasks : StepL34(t)
    \/ \E t \in Tasks : StepL35(t)
    \/ \E t \in Tasks : StepL40(t)
    \/ \E t \in Tasks : StepL53(t)
    \/ \E t \in Tasks : StepL98(t)
    \/ \E t \in Tasks : Exit(t)

SpecLock == Init /\ [][NextLock]_vars

\* a statement of the block task t is in, or its leaving the block: between
\* entering and leaving there is no await, the task runs on
Run(t) ==
    \/ StepL21(t) \/ StepL29(t) \/ StepL34(t) \/ StepL35(t) \/ StepL40(t)
    \/ StepL53(t) \/ StepL98(t) \/ Exit(t)

\* asyncio.Lock wakes its waiters first come first served: a task that waits
\* while the lock is released again and again gets it
FairLock == \A t \in Tasks : WF_vars(Run(t)) /\ SF_vars(Acquire(t))

\* the five operations as concurrent callers, one payload and one target each
NextLive ==
    \/ \E t \in Tasks : CallUpdateNode(t, "A", EmptyReport)
    \/ \E t \in Tasks : CallGetCommands(t, "A")
    \/ \E t \in Tasks : CallQueueCommand(t, "A", LockCmd)
    \/ \E t \in Tasks : CallGetTopology(t)
    \/ \E t \in Tasks : CallGetNodeDetails(t, "A")
    \/ \E t \in Tasks : Acquire(t)
    \/ \E t \in Tasks : Run(t)

SpecLive == Init /\ [][NextLive]_vars /\ FairLock

-----------------------------------------------------------------------------
(* Command queue claims *)

\* the commands of a history of enqueue events, in order
CmdsOf(events) == [i \in 1..Len(events) |-> events[i].cmd]

\* C1: each get_commands(X) returns exactly the commands enqueued for X (directly,
\* or by a BROADCAST issued while X was in the store) since the previous
\* get_commands(X), in enqueue order, and leaves X's queue empty; a get_commands(X)
\* that directly follows a get_commands(X) returns the empty sequence.
C1_DrainExact ==
    /\ [](last.op = "get_commands" =>
            /\ last.ret = CmdsOf(last.hist.enqueued)
            /\ last.node_id \in DOMAIN pending_commands
            /\ pending_commands[last.node_id] = <<>>)
    /\ [][\A X \in Ids :
            (last.op = "get_commands" /\ last.node_id = X /\ get_commands(X))
                => last'.ret = <<>>]_vars

\* a drain that returned a broadcast command followed by a direct one
C1_Witness ==
    /\ last.op = "get_commands"
    /\ last.node_id \in NodeKeys(nodes)
    /\ Len(last.ret) = 2
    /\ last.ret[1] # last.ret[2]
    /\ last.hist.enqueued[1].via = "broadcast"
    /\ last.hist.enqueued[2].via = "direct"

\* the step queue_command("BROADCAST", c) appends c to the queue of exactly the
\* ids in the store and changes no other queue
BroadcastExact(c) ==
    queue_command(BROADCAST, c) =>
        /\ DOMAIN pending_commands' = DOMAIN pending_commands \cup NodeKeys(nodes)
        /\ \A k \in NodeKeys(nodes) :
              pending_commands'[k] = Append(Get(pending_commands, k, <<>>), c)
        /\ \A k \in DOMAIN pending_commands \ NodeKeys(nodes) :
              pending_commands'[k] = pending_commands[k]

\* X's first update_node has just completed, after a broadcast that was issued
\* while X was not in the store and that X has not polled since
JustJoinedLate(X) ==
    /\ last.op = "update_node"
    /\ last.node_id = X
    /\ last.hist = <<>>
    /\ missed[X]

\* C2 as stated: queue_command("BROADCAST", c) appends c to the queue of exactly
\* the ids in the store at the call and to no other queue, and a node whose
\* first update_node comes after the broadcast gets the empty sequence from
\* get_commands, even if it already had a queue created by an earlier direct
\* queue_command.
C2_LateJoinerEmpty ==
    /\ [][\A c \in Cmds : BroadcastExact(c)]_vars
    /\ [][\A X \in Ids : (JustJoinedLate(X) /\ get_commands(X)) => last'.ret = <<>>]_vars

\* C2 as amended: queue_command("BROADCAST", c) appends c to the queue of
\* exactly the ids in the store at the call and changes no other queue; a node
\* whose first update_node comes after the broadcast does not receive c: its
\* get_commands returns exactly the commands queued to it directly, in order,
\* and the empty sequence when there are none, whether or not it had a queue
\* before.
C2_BroadcastSnapshot ==
    /\ [][\A c \in Cmds : BroadcastExact(c)]_vars
    /\ [][\A X \in Ids : (JustJoinedLate(X) /\ get_commands(X)) =>
            /\ last'.ret = CmdsOf(enqueued[X])
            /\ \A i \in 1..Len(enqueued[X]) : enqueued[X][i].via = "direct"]_vars
    /\ [](last.op = "get_commands" /\ last.hist.missed /\ last.hist.enqueued = <<>>
            => last.ret = <<>>)

\* C had "y" queued directly, missed the broadcast of "x" that reached A,
\* joined and polled: it gets "y" alone
C2_Witness ==
    /\ last.op = "get_commands"
    /\ last.node_id = "C"
    /\ "C" \in NodeKeys(nodes)
    /\ last.hist.missed
    /\ last.ret = <<"y">>
    /\ last.hist.enqueued = <<[cmd |-> "y", via |-> "direct"]>>
    /\ PendingOf("A") = <<"x">>

RECURSIVE InFlight(_, _)
\* the commands that get_commands(X) calls among the tasks ts have taken out of
\* X's queue (line 35 done) and not yet returned
InFlight(X, ts) ==
    IF ts = {} THEN <<>>
    ELSE LET t == CHOOSE u \in ts : TRUE
         IN (IF tasks[t].op = "get_commands" /\ tasks[t].node_id = X /\ tasks[t].pc = "exit"
             THEN tasks[t].cmds ELSE <<>>) \o InFlight(X, ts \ {t})

\* C3: under every interleaving of concurrent get_commands and queue_command calls,
\* the commands enqueued for X are, in order, those already returned by
\* get_commands(X) calls, then those a call is about to return, then those still
\* pending in X's queue: none is lost and none is returned twice.
C3_NoLossNoDuplicate ==
    \A X \in ConcIds :
        sent[X] = received[X] \o InFlight(X, Tasks) \o PendingOf(X)

\* two get_commands("A") calls overlap, one about to return a command and one
\* waiting for the lock, while a third task is inside queue_command
C3_Witness ==
    \E t1, t2, t3 \in Tasks :
        /\ tasks[t1].op = "get_commands" /\ tasks[t1].node_id = "A"
        /\ tasks[t1].pc = "exit" /\ tasks[t1].cmds # <<>>
        /\ tasks[t2].op = "get_commands" /\ tasks[t2].node_id = "A"
        /\ tasks[t2].pc = "acquire"
        /\ tasks[t3].op = "queue_command" /\ tasks[t3].pc = "acquire"
        /\ sent["A"] # <<>>
        /\ PendingOf("A") = <<>>

-----------------------------------------------------------------------------
(* Node store claims *)

RecordFields == {"last_seen", "routing_table", "neighbors", "ip", "details"}

\* what a record must hold for the payload d: d's own value of each field, or
\* the empty value of the field's type where d has none
HoldsExactly(r, d) ==
    /\ DOMAIN r = RecordFields
    /\ r.details = d
    /\ r.routing_table = (IF "routing_table" \in DOMAIN d THEN d["routing_table"] ELSE {})
    /\ r.neighbors = (IF "neighbors" \in DOMAIN d THEN d["neighbors"] ELSE PyList(<<>>))
    /\ r.ip = (IF "ip" \in DOMAIN d THEN d["ip"] ELSE "")

\* C4: after update_node(A, R2), whatever record A had before, the stored record
\* of A holds exactly R2's routing_table, neighbors, ip and raw details, with the
\* empty defaults for the fields R2 lacks.
C4_Overwrite ==
    last.op = "update_node" => HoldsExactly(NodeGet(nodes, last.node_id), last.arg)

\* a full report overwritten by an empty one
C4_Witness ==
    /\ last.op = "update_node"
    /\ DOMAIN last.hist = RecordFields
    /\ last.hist.details = FullReport
    /\ last.arg = EmptyReport
    /\ NodeGet(nodes, last.node_id).ip = ""

\* the positions of the entries with id x in a list of graph nodes
EntriesOf(graph_nodes, x) == {i \in 1..Len(graph_nodes) : graph_nodes[i].id = x}

\* C5: a record exists for X exactly when update_node(X, ...) has completed; no
\* step removes a key from the store, and every stored node, however long it
\* has been silent, has its own entry in each get_topology result.
C5_RecordIffReported ==
    /\ [](NodeKeys(nodes) = DOMAIN reported)
    /\ [](last.op = "get_topology" /\ last.status = "ok" =>
            \A x \in DOMAIN reported :
                \E i \in EntriesOf(last.ret.nodes, x) : last.ret.nodes[i].name = x)
    /\ [][NodeKeys(nodes) \subseteq NodeKeys(nodes')]_vars

\* A has been silent for twice the threshold and is in the graph as an inactive
\* node; B was queued to and emitted as a ghost, and has no record
C5_Witness ==
    /\ last.op = "get_topology"
    /\ "A" \in NodeKeys(nodes)
    /\ now - NodeGet(nodes, "A").last_seen >= 2 * ActiveThreshold
    /\ \E i \in EntriesOf(last.ret.nodes, "A") : last.ret.nodes[i].color = "#9E9E9E"
    /\ "B" \notin NodeKeys(nodes)
    /\ EntriesOf(last.ret.nodes, "B") # {}
    /\ "B" \in DOMAIN pending_commands
    /\ pending_commands["B"] # <<>>

\* C8 as stated: get_node_details(X) returns exactly the payload of the most
\* recent update_node(X, payload), and nothing else.
C8_DetailsIsPayload ==
    (last.op = "get_node_details" /\ last.node_id \in DOMAIN reported)
        => last.ret = reported[last.node_id]

\* C8 as amended: get_node_details(X) returns the stored record of X: its details
\* field is exactly the payload of the most recent update_node(X, payload), and
\* beside it the record holds last_seen and the routing_table, neighbors and ip
\* taken from that payload.
C8_DetailsIsRecord ==
    (last.op = "get_node_details" /\ last.node_id \in DOMAIN reported)
        => /\ last.status = "ok"
           /\ HoldsExactly(last.ret, reported[last.node_id])
           /\ last.ret.last_seen <= now

\* the details of a node whose latest report was the full one
C8_Witness ==
    /\ last.op = "get_node_details"
    /\ last.node_id \in DOMAIN reported
    /\ reported[last.node_id] = FullReport
    /\ last.ret.details = FullReport
    /\ Len(nodes) > 1

\* the stored nodes whose neighbour list names x
ListedBy(x) ==
    {i \in 1..Len(nodes) :
        /\ nodes[i].value.neighbors.type = "list"
        /\ \E j \in 1..Len(nodes[i].value.neighbors.items) :
              nodes[i].value.neighbors.items[j] = x}

\* C9: get_node_details(X) for an X that never reported returns the empty result
\* without an error, and changes neither the store nor any queue.
C9_UnknownDetailsEmpty ==
    /\ [](last.op = "get_node_details" /\ last.node_id \notin DOMAIN reported =>
            /\ last.status = "ok"
            /\ last.ret = <<>>)
    /\ [][\A X \in Ids : get_node_details(X) =>
            /\ nodes' = nodes
            /\ pending_commands' = pending_commands]_vars

\* B never reported, has a command pending and is listed by a stored node
C9_Witness ==
    /\ last.op = "get_node_details"
    /\ last.node_id = "B"
    /\ "B" \notin DOMAIN reported
    /\ PendingOf("B") # <<>>
    /\ ListedBy("B") # {}
    /\ last.ret = <<>>

-----------------------------------------------------------------------------
(* Topology claims *)

\* C6: a neighbour B that is listed by stored nodes and has no record of its own
\* gets exactly one entry in the graph, of the unknown/offline class, and a link
\* A->B from every stored node A that lists it; a B that has a record gets no
\* entry of the unknown/offline class.
C6_GhostOnce ==
    (last.op = "get_topology" /\ last.status = "ok") =>
        \A B \in Ids :
            LET entries == EntriesOf(last.ret.nodes, B)
            IN /\ (B \notin NodeKeys(nodes) /\ ListedBy(B) # {}) =>
                     /\ Cardinality(entries) = 1
                     /\ \A i \in entries : last.ret.nodes[i] = GhostEntry(B)
                     /\ \A i \in entries : last.ret.nodes[i].color \notin {"#4CAF50", "#9E9E9E"}
                     /\ \A a \in ListedBy(B) :
                           \E k \in 1..Len(last.ret.links) :
                               /\ last.ret.links[k].source = nodes[a].key
                               /\ last.ret.links[k].target = B
               /\ B \in NodeKeys(nodes) =>
                     \A i \in entries : last.ret.nodes[i].color # "#FFC107"

\* A and C both list B twice, B has no record: one ghost entry for B
C6_Witness ==
    /\ last.op = "get_topology"
    /\ last.status = "ok"
    /\ NodeKeys(nodes) = {"A", "C"}
    /\ NodeGet(nodes, "A").details = FullReport
    /\ NodeGet(nodes, "C").details = FullReport
    /\ Cardinality(EntriesOf(last.ret.nodes, "B")) = 1
    /\ Len(last.ret.links) = 4

\* C7: in one get_topology result every stored node is classed active exactly
\* when the call's one reference time minus its last_seen is below the
\* threshold of 5 seconds, and inactive otherwise.
C7_ActiveBoundary ==
    (last.op = "get_topology" /\ last.status = "ok") =>
        \A i \in 1..Len(nodes) :
            LET age == last.arg - nodes[i].value.last_seen
                entries == EntriesOf(last.ret.nodes, nodes[i].key)
            IN /\ entries # {}
               /\ \A k \in entries :
                     /\ (age < ActiveThreshold) <=>
                            (last.ret.nodes[k].color = "#4CAF50" /\ last.ret.nodes[k].val = 10)
                     /\ (age >= ActiveThreshold) <=>
                            (last.ret.nodes[k].color = "#9E9E9E" /\ last.ret.nodes[k].val = 5)

\* one snapshot with nodes aged 4.9 s (active), 5.0 s and 5.1 s (both inactive)
C7_Witness ==
    /\ last.op = "get_topology"
    /\ last.status = "ok"
    /\ \E i, j, h \in 1..Len(nodes) :
          /\ last.arg - nodes[i].value.last_seen = 49
          /\ last.arg - nodes[j].value.last_seen = 50
          /\ last.arg - nodes[h].value.last_seen = 51
          /\ \E k \in EntriesOf(last.ret.nodes, nodes[i].key) :
                last.ret.nodes[k].color = "#4CAF50"
          /\ \E k \in EntriesOf(last.ret.nodes, nodes[j].key) :
                last.ret.nodes[k].color = "#9E9E9E"
          /\ \E k \in EntriesOf(last.ret.nodes, nodes[h].key) :
                last.ret.nodes[k].color = "#9E9E9E"

\* C10: every public operation completes with a result and raises no error,
\* whatever the shape of the reports stored before it.
C10_Total == last.status = "ok"

-----------------------------------------------------------------------------
(* Concurrent callers *)

\* no update_node call is between its start and its return
NoUpdateInFlight == \A u \in Tasks : tasks[u].op # "update_node"

\* C11: after concurrent update_node calls on distinct ids from an empty
\* aggregator have all completed, whatever their interleaving, the graph a
\* get_topology call builds has exactly one node entry per completed call (N
\* entries for N calls), none lost and none duplicated.
C11_NoLostUpdate ==
    \A t \in Tasks :
        (tasks[t].op = "get_topology" /\ tasks[t].pc = "exit" /\ NoUpdateInFlight)
        => /\ Len(tasks[t].ret.nodes) = Cardinality(DOMAIN reported)
           /\ \A x \in DOMAIN reported :
                 Cardinality(EntriesOf(tasks[t].ret.nodes, x)) = 1

\* three calls on three ids have completed and a get_topology call has built its graph
C11_Witness ==
    /\ DOMAIN reported = Ids
    /\ \E t \in Tasks : /\ tasks[t].op = "get_topology" /\ tasks[t].pc = "exit"
                         /\ NoUpdateInFlight
                         /\ Len(tasks[t].ret.nodes) = 3

\* the task is inside an "async with self.lock" block
InBlock(t) == tasks[t].pc \notin {"idle", "acquire"}

\* what the call of task t is about to return
ResultOf(t) == IF tasks[t].op = "get_commands" THEN tasks[t].cmds ELSE tasks[t].ret

\* every field of the record r comes from the one payload kept in r.details
Untorn(r) == HoldsExactly(r, r.details)

\* C12: each operation runs entirely inside the one exclusive lock. At most one
\* task is inside a block at any time and it is the lock's holder; every
\* stored record and every record a reader is about to return is whole (all
\* its fields from one update_node call); and when a call leaves its block the
\* store, the queues and its return value are those of running the whole
\* operation in one step at the moment it took the lock, so every concurrent
\* execution equals the sequential one in lock order.
C12_Exclusive ==
    /\ Cardinality({t \in Tasks : InBlock(t)}) <= 1
    /\ \A t \in Tasks : InBlock(t) => lock = t
    /\ (lock = "free") => lin = NoLin
    /\ \A i \in 1..Len(nodes) : Untorn(nodes[i].value)
    /\ \A t \in Tasks :
          (tasks[t].op = "get_node_details" /\ tasks[t].pc = "exit" /\ tasks[t].ret # <<>>)
          => Untorn(tasks[t].ret)
    /\ \A t \in Tasks :
          tasks[t].pc = "exit"
          => /\ lin.by = t
             /\ lin.op = tasks[t].op
             /\ nodes = lin.post.nodes
             /\ pending_commands = lin.post.pending_commands
             /\ ResultOf(t) = lin.post.ret

\* an update_node call overwriting A's record is between its two statements
\* while a get_node_details call and a get_topology call wait for the lock
C12_Witness ==
    \E t, u, w \in Tasks :
        /\ tasks[t].op = "update_node" /\ tasks[t].pc = "L29"
        /\ "A" \in DOMAIN reported /\ reported["A"] # tasks[t].arg
        /\ tasks[u].op = "get_node_details" /\ tasks[u].pc = "acquire"
        /\ tasks[w].op = "get_topology" /\ tasks[w].pc = "acquire"

\* C13: the aggregator cannot deadlock. With the one lock handed out fairly,
\* every operation that was invoked eventually completes, whatever the other
\* callers do.
C13_EveryCallCompletes ==
    \A t \in Tasks : (tasks[t].pc # "idle") ~> (tasks[t].pc = "idle")

\* one call holds the lock while the two other callers wait for it
C13_Witness ==
    \E t, u, w \in Tasks :
        /\ u # w
        /\ InBlock(t) /\ lock = t
        /\ tasks[u].pc = "acquire" /\ tasks[w].pc = "acquire"

-----------------------------------------------------------------------------
(* Read-only topology *)

\* the ids of the yellow (unknown/offline) entries of a graph
GhostIds(graph_nodes) ==
    {graph_nodes[i].id : i \in {j \in 1..Len(graph_nodes) : graph_nodes[j].color = "#FFC107"}}

\* C14: get_topology is read-only. The step leaves the store and every queue as
\* they were; an id emitted as a ghost is not in the store afterwards, so a
\* later broadcast appends nothing to the queue of an id without a record and
\* get_node_details on such an id still returns the empty result.
C14_TopologyReadOnly ==
    /\ [][get_topology => /\ nodes' = nodes
                          /\ pending_commands' = pending_commands]_vars
    /\ [](last.op = "get_topology" /\ last.status = "ok"
            => GhostIds(last.ret.nodes) \cap NodeKeys(nodes) = {})
    /\ [][queue_command(BROADCAST, "x")
            => \A k \in Ids \ DOMAIN reported :
                  Get(pending_commands', k, <<>>) = PendingOf(k)]_vars
    /\ [][\A k \in Ids \ DOMAIN reported : get_node_details(k) => last'.ret = <<>>]_vars

\* a graph with the ghost B was just built while A has a broadcast command
\* pending; B has neither a record nor a queue
C14_Witness ==
    /\ last.op = "get_topology"
    /\ last.status = "ok"
    /\ "B" \in GhostIds(last.ret.nodes)
    /\ "B" \notin NodeKeys(nodes)
    /\ "B" \notin DOMAIN pending_commands
    /\ \E i \in 1..Len(enqueued["A"]) : enqueued["A"][i].via = "broadcast"
    /\ PendingOf("A") # <<>>

-----------------------------------------------------------------------------
(* Shape of the graph *)

\* get_topology has just returned a graph
GraphReturned == last.op = "get_topology" /\ last.status = "ok"

\* the stored record at position i holds the report d
Stored(i, k, d) == Len(nodes) >= i /\ nodes[i].key = k /\ nodes[i].value.details = d

\* C15: the marker 'LOCAL' in a neighbour list yields neither a ghost entry
\* nor a link: no link of a returned graph targets the marker and no ghost
\* entry has the marker as its id.
C15_MarkerSkipped ==
    GraphReturned =>
        /\ LOCAL_MARKER \notin GhostIds(last.ret.nodes)
        /\ \A i \in 1..Len(last.ret.links) : last.ret.links[i].target # LOCAL_MARKER

\* A's stored neighbour list holds the marker between two occurrences of B
C15_Witness ==
    /\ GraphReturned
    /\ Stored(1, "A", FullReport)
    /\ \E j \in 1..Len(nodes[1].value.neighbors.items) :
          nodes[1].value.neighbors.items[j] = LOCAL_MARKER
    /\ Len(last.ret.links) = 2

\* the <<source, target>> pairs of a list of links, in order
Pairs(links) == [i \in 1..Len(links) |-> <<links[i].source, links[i].target>>]

\* one pair per occurrence of a neighbour other than the marker, in list order
PairsFrom(nid, items) ==
    LET kept == SelectSeq(items, LAMBDA x : x # LOCAL_MARKER)
    IN [i \in 1..Len(kept) |-> <<nid, kept[i]>>]

RECURSIVE PairsOfStore(_, _)
\* the pairs of the stored nodes from position i on, in store order
PairsOfStore(d, i) ==
    IF i > Len(d) THEN <<>>
    ELSE PairsFrom(d[i].key, d[i].value.neighbors.items) \o PairsOfStore(d, i + 1)

\* C16: the links of a returned graph are exactly one directed link
\* node->neighbour for each occurrence of a neighbour other than the marker in
\* each stored node's list, in list order per node: repeated neighbours give
\* repeated links, and no link is added in the reverse direction (every link
\* source->target has target in source's own list).
C16_LinksExact ==
    GraphReturned =>
        /\ Pairs(last.ret.links) = PairsOfStore(nodes, 1)
        /\ \A i \in 1..Len(last.ret.links) :
              \E j \in ListedBy(last.ret.links[i].target) :
                  nodes[j].key = last.ret.links[i].source

\* A lists B twice and the marker, B lists C and A: the graph has A->B twice,
\* B->C and B->A, in that order
C16_Witness ==
    /\ GraphReturned
    /\ Stored(1, "A", FullReport)
    /\ Stored(2, "B", PartialReport)
    /\ Len(nodes) = 2
    /\ Pairs(last.ret.links) = <<<<"A", "B">>, <<"A", "B">>, <<"B", "C">>, <<"B", "A">>>>

\* C19: the node entries of a returned graph have pairwise distinct ids: no
\* stored node twice, no id both as stored node and as ghost (also when the
\* neighbour's record comes later in the iteration or a node lists itself),
\* no ghost twice.
C19_DistinctIds ==
    GraphReturned =>
        \A i, j \in 1..Len(last.ret.nodes) :
            last.ret.nodes[i].id = last.ret.nodes[j].id => i = j

\* A lists itself and C, whose record comes later; C lists the ghost B twice
C19_Witness ==
    /\ GraphReturned
    /\ Stored(1, "A", PartialReport)
    /\ Stored(2, "C", FullReport)
    /\ Len(nodes) = 2
    /\ Len(last.ret.nodes) = 3
    /\ GhostIds(last.ret.nodes) = {"B"}

\* the ids of the entries of a graph that stand for stored nodes
StoredIds(graph_nodes) ==
    {graph_nodes[i].id : i \in {j \in 1..Len(graph_nodes) : graph_nodes[j].color # "#FFC107"}}

\* C20: every link of a returned graph is closed: its source is the id of a
\* stored-node entry of the same graph and its target is the id of some node
\* entry of the same graph, stored or ghost.
C20_LinksClosed ==
    GraphReturned =>
        \A i \in 1..Len(last.ret.links) :
            /\ last.ret.links[i].source \in StoredIds(last.ret.nodes)
            /\ last.ret.links[i].target
                  \in StoredIds(last.ret.nodes) \cup GhostIds(last.ret.nodes)

\* a graph with a link to a ghost, a link to a stored node emitted after its
\* source and a link from a node to itself
C20_Witness ==
    /\ GraphReturned
    /\ \E i, j, k \in 1..Len(last.ret.links) :
          /\ last.ret.links[i].target \in GhostIds(last.ret.nodes)
          /\ last.ret.links[j].source = "A" /\ last.ret.links[j].target = "C"
          /\ "C" \in StoredIds(last.ret.nodes)
          /\ last.ret.links[k].source = last.ret.links[k].target

-----------------------------------------------------------------------------
(* Queues and the store *)

\* C17: commands queued directly to an id that never reported are retained.
\* queue_command creates the id's queue; the queue holds exactly the commands
\* enqueued since the id's last drain through every other operation; the
\* node's own update_node calls, the first and the later ones, leave every
\* existing queue as it is; and the id's next get_commands returns them.
C17_QueuedBeforeReport ==
    /\ [][\A X \in Ids, c \in Cmds :
            (X \notin DOMAIN pending_commands /\ queue_command(X, c))
                => /\ X \in DOMAIN pending_commands'
                   /\ pending_commands'[X] = <<c>>]_vars
    /\ [](\A X \in Ids : PendingOf(X) = CmdsOf(enqueued[X]))
    /\ [][\A X \in Ids :
            update_node(X, EmptyReport)
                => \A k \in DOMAIN pending_commands :
                      /\ k \in DOMAIN pending_commands'
                      /\ pending_commands'[k] = pending_commands[k]]_vars
    /\ [][\A X \in Ids : get_commands(X) => last'.ret = PendingOf(X)]_vars

\* a node's first report has just completed with two commands, queued to it
\* directly before it ever reported, still pending in order
C17_Witness ==
    /\ last.op = "update_node"
    /\ last.hist = <<>>
    /\ PendingOf(last.node_id) = <<"x", "y">>
    /\ \A i \in 1..Len(enqueued[last.node_id]) : enqueued[last.node_id][i].via = "direct"

\* C18: every node id in the store has a command queue entry. update_node
\* creates an empty queue when the id has none, and no operation deletes a
\* queue entry.
C18_StoredHasQueue ==
    /\ [](NodeKeys(nodes) \subseteq DOMAIN pending_commands)
    /\ [][\A X \in Ids :
            (X \notin DOMAIN pending_commands /\ update_node(X, FullReport))
                => /\ X \in DOMAIN pending_commands'
                   /\ pending_commands'[X] = <<>>]_vars
    /\ [][DOMAIN pending_commands \subseteq DOMAIN pending_commands']_vars

\* a first report has just created an empty queue, beside a non-empty queue
\* that queue_command created for an id without a record
C18_Witness ==
    /\ last.op = "update_node"
    /\ last.hist = <<>>
    /\ last.node_id \in DOMAIN pending_commands
    /\ pending_commands[last.node_id] = <<>>
    /\ enqueued[last.node_id] = <<>>
    /\ \E k \in DOMAIN pending_commands :
          k \notin NodeKeys(nodes) /\ pending_commands[k] # <<>>
====
